---- MODULE Spec2Model ----
(***************************************************************************)
(* A model of the seabolt-rs binding layer: the process guard (Bolt), the  *)
(* tagged Value bridge, the boundary string validation, the Trust/Config   *)
(* handles and basic_auth.  The native engine is reached only through its  *)
(* C ABI; the engine-side effects of each call are modelled on an abstract *)
(* heap of engine storage.                                                 *)
(***************************************************************************)
EXTENDS Integers, Sequences, FiniteSets, TLC

VARIABLES
    \* ---- process guard (src/src/lib.rs 43-71)
    SINGLE,         \* the Option<Bolt> in the lazy static: "Some" or "None"
    lock,           \* the thread holding SINGLE's mutex, 0 when free
    pc,             \* per thread: its position inside Bolt::init
    local,          \* per thread: the local `init` (the taken Option<Bolt>)
    held,           \* per thread: guards returned by init() and not yet dropped
    literal,        \* live Bolt values written as the expression `Bolt`
    literalMade,    \* how many such values were written so far
    calls,          \* per thread: init() calls started
    sawGuard,       \* per thread: a guard was outstanding when the last call started
    lastRet,        \* per thread: what the last finished init() returned
    issued,         \* init() calls that returned Some
    startups,       \* calls of seabolt_sys::Bolt_startup
    shutdowns,      \* calls of seabolt_sys::Bolt_shutdown
    droppedIssued,  \* issued guards that were dropped
    \* ---- engine Value storage and the Value handles (src/src/value.rs)
    lim,            \* the capacity of the run: how many of each object it may hold
    heap,           \* engine storage: cell -> [st, tag, val, keys, kids]
    freed,          \* cell -> how many times the storage was released
    owned,          \* cell -> number of Rust `Value` objects whose ptr is the cell
    ub,             \* the program has executed undefined behaviour
    last,           \* the last accessor call: what it saw and what it did
    lastBuild,      \* the last container built by into_list/into_dict/into_structure
    made,           \* the last scalar construction: its cell and its input
    lastOp,         \* the last operation that takes caller input, and how it ended
    \* ---- Address, Trust, Config and basic_auth (src/src/lib.rs, src/src/config.rs)
    addresses,      \* live Address objects, each over one BoltAddress
    trusts,         \* engine Trust records: id -> [st, destroyed, holder, skip]
    configs,        \* engine Config records: id -> [st, trust, scheme, transport, agent]
    views,          \* NTTWrapper<Trust> views: id -> [st, config, trust]
    auth            \* the basic_auth call in progress, or the last one finished

gvars == <<SINGLE, lock, pc, local, held, literal, literalMade, calls, sawGuard, lastRet,
           issued, startups, shutdowns, droppedIssued>>

hcore == <<lim, heap, freed, owned, ub, last, lastBuild, made>>

hvars == <<hcore, lastOp>>

lvars == <<addresses, trusts, configs, views, auth>>

vars == <<gvars, hvars, lvars>>

\* what the actions of one component leave alone
notGuard == <<hvars, lvars>>
notHeap == <<gvars, lvars>>
notLib == <<gvars, hcore>>

(***************************************************************************)
(* Bounds                                                                  *)
(***************************************************************************)
NumThreads == 2
MaxInitCalls == 2
MaxLiteral == 1
HeapCells == 3
HeapHandles == 2
DictCells == 5
DictHandles == 3
RoundCells == 3
RoundHandles == 1
MaxAddresses == 1
MaxTrusts == 2
MaxConfigs == 1
MaxViews == 1
MaxAuths == 1

Threads == 1..NumThreads

(***************************************************************************)
(* Process guard: Bolt::init and Drop for Bolt                             *)
(***************************************************************************)
GuardInit ==
    /\ SINGLE = "Some"
    /\ lock = 0
    /\ pc = [t \in Threads |-> "idle"]
    /\ local = [t \in Threads |-> "None"]
    /\ held = [t \in Threads |-> 0]
    /\ literal = 0
    /\ literalMade = 0
    /\ calls = [t \in Threads |-> 0]
    /\ sawGuard = [t \in Threads |-> FALSE]
    /\ lastRet = [t \in Threads |-> "none yet"]
    /\ issued = 0
    /\ startups = 0
    /\ shutdowns = 0
    /\ droppedIssued = 0

GuardOutstanding == \E u \in Threads : held[u] > 0

\* Mutex::lock without mutual exclusion.
MutexFreeUnguarded(t) == t \in Threads

\* SINGLE.lock(): the caller blocks until no thread holds the mutex.
MutexFree(t) == lock = 0

\* SINGLE.lock().unwrap()
InitLock(t) ==
    /\ pc[t] = "idle"
    /\ calls[t] < MaxInitCalls
    /\ MutexFree(t)
    /\ lock' = t
    /\ pc' = [pc EXCEPT ![t] = "locked"]
    /\ calls' = [calls EXCEPT ![t] = @ + 1]
    /\ sawGuard' = [sawGuard EXCEPT ![t] = GuardOutstanding]
    /\ UNCHANGED <<SINGLE, local, held, literal, literalMade, lastRet, issued, startups,
                   shutdowns, droppedIssued>>
    /\ UNCHANGED notGuard

\* Option::take, first half: read the slot (mem::replace reads the old value)
InitTakeRead(t) ==
    /\ pc[t] = "locked"
    /\ local' = [local EXCEPT ![t] = SINGLE]
    /\ pc' = [pc EXCEPT ![t] = "replace"]
    /\ UNCHANGED <<SINGLE, lock, held, literal, literalMade, calls, sawGuard, lastRet, issued,
                   startups, shutdowns, droppedIssued>>
    /\ UNCHANGED notGuard

\* Option::take, second half: leave None in the slot; the MutexGuard temporary
\* is dropped at the end of the `let init = ...;` statement
InitTakeWrite(t) ==
    /\ pc[t] = "replace"
    /\ SINGLE' = "None"
    /\ lock' = IF lock = t THEN 0 ELSE lock
    /\ pc' = [pc EXCEPT ![t] = "check"]
    /\ UNCHANGED <<local, held, literal, literalMade, calls, sawGuard, lastRet, issued,
                   startups, shutdowns, droppedIssued>>
    /\ UNCHANGED notGuard

\* if init.is_some() { Bolt_startup() }
InitStartup(t) ==
    /\ pc[t] = "check"
    /\ startups' = IF local[t] = "Some" THEN startups + 1 ELSE startups
    /\ pc' = [pc EXCEPT ![t] = "ret"]
    /\ UNCHANGED <<SINGLE, lock, local, held, literal, literalMade, calls, sawGuard, lastRet,
                   issued, shutdowns, droppedIssued>>
    /\ UNCHANGED notGuard

\* the tail expression `init`
InitReturn(t) ==
    /\ pc[t] = "ret"
    /\ lastRet' = [lastRet EXCEPT ![t] = local[t]]
    /\ held' = [held EXCEPT ![t] = IF local[t] = "Some" THEN @ + 1 ELSE @]
    /\ issued' = IF local[t] = "Some" THEN issued + 1 ELSE issued
    /\ local' = [local EXCEPT ![t] = "None"]
    /\ pc' = [pc EXCEPT ![t] = "idle"]
    /\ UNCHANGED <<SINGLE, lock, literal, literalMade, calls, sawGuard, startups, shutdowns,
                   droppedIssued>>
    /\ UNCHANGED notGuard

\* Drop for Bolt, run on a guard that init() returned
DropGuard(t) ==
    /\ held[t] > 0
    /\ held' = [held EXCEPT ![t] = @ - 1]
    /\ shutdowns' = shutdowns + 1
    /\ droppedIssued' = droppedIssued + 1
    /\ UNCHANGED <<SINGLE, lock, pc, local, literal, literalMade, calls, sawGuard, lastRet,
                   issued, startups>>
    /\ UNCHANGED notGuard

\* `pub struct Bolt;` is a public unit struct: the expression `Bolt` is a value
\* of it, in this crate and in every crate that uses it
LiteralBolt ==
    /\ literalMade < MaxLiteral
    /\ literal' = literal + 1
    /\ literalMade' = literalMade + 1
    /\ UNCHANGED <<SINGLE, lock, pc, local, held, calls, sawGuard, lastRet,
                   issued, startups, shutdowns, droppedIssued>>
    /\ UNCHANGED notGuard

\* Drop for Bolt, run on such a value
DropLiteral ==
    /\ literal > 0
    /\ literal' = literal - 1
    /\ shutdowns' = shutdowns + 1
    /\ UNCHANGED <<SINGLE, lock, pc, local, held, literalMade, calls, sawGuard, lastRet,
                   issued, startups, droppedIssued>>
    /\ UNCHANGED notGuard

GuardNext ==
    \/ \E t \in Threads :
          \/ InitLock(t)
          \/ InitTakeRead(t)
          \/ InitTakeWrite(t)
          \/ InitStartup(t)
          \/ InitReturn(t)
          \/ DropGuard(t)
    \/ LiteralBolt
    \/ DropLiteral


\* C1: under any interleaving of init() calls at most one call ever returns a
\* guard, at most one guard is held, and a call that started while a guard was
\* outstanding returns None.
C1_AtMostOneGuard ==
    /\ issued <= 1
    /\ Cardinality({t \in Threads : held[t] > 0}) <= 1
    /\ \A t \in Threads : held[t] <= 1
    /\ \A t \in Threads : (sawGuard[t] /\ pc[t] = "idle") => lastRet[t] # "Some"

\* two calls overlapped inside init(), one got the guard, and a later call made
\* while that guard was outstanding came back with None
C1_Witness ==
    /\ issued = 1
    /\ \E t, u \in Threads :
        /\ t # u
        /\ held[t] = 1
        /\ sawGuard[u] /\ lastRet[u] = "None" /\ pc[u] = "idle"

\* C2: Bolt_startup runs at most once, Bolt_shutdown at most once, never before
\* the startup, and only for the drop of the one guard init() issued.
C2_StartupShutdownPaired ==
    /\ startups <= 1
    /\ shutdowns <= 1
    /\ shutdowns <= startups
    /\ shutdowns = droppedIssued

(***************************************************************************)
(* Engine storage.  A cell is one BoltValue: its state, its active tag,    *)
(* its payload (a sequence of integers: the bytes of a String or Bytes,    *)
(* 0/1 of a Boolean, the limbs of an Integer, the code of a Structure),    *)
(* the keys of a Dictionary and the child slots of a container.            *)
(***************************************************************************)
Cells == 1..lim.cells

Tags == {"Null", "Boolean", "Integer", "Float", "String", "Dictionary", "List",
         "Bytes", "Structure"}

NoCell == [st |-> "unalloc", tag |-> "Null", val |-> <<>>, keys |-> <<>>, kids |-> <<>>]
NullCell == [st |-> "live", tag |-> "Null", val |-> <<>>, keys |-> <<>>, kids |-> <<>>]
FreedCell == [st |-> "freed", tag |-> "Null", val |-> <<>>, keys |-> <<>>, kids |-> <<>>]

\* the engine as a value threaded through the calls of one operation:
\* calls counts the engine calls made, ret is the last pointer returned,
\* oom says the bounded heap ran out of cells
Mach == [heap |-> heap, freed |-> freed, ub |-> ub, oom |-> FALSE,
         calls |-> 0, ret |-> 0, panic |-> FALSE, early |-> 0]

Tick(m) == [m EXCEPT !.calls = @ + 1]

Live(m, c) == c \in Cells /\ m.heap[c].st = "live"

\* the allocator hands out the lowest cell not in use; none left is the
\* bound of the model, not a state of the program
Unused(m) == {c \in Cells : m.heap[c].st = "unalloc"}
Full(m) == Unused(m) = {}
NextFree(m) == CHOOSE c \in Unused(m) : \A d \in Unused(m) : c <= d

RECURSIVE Release(_, _), ReleaseAll(_, _)
\* deep free of a cell: the cell and, recursively, every child slot it owns;
\* releasing storage that was already released is a double free
Release(m, c) ==
    IF m.heap[c].st # "live"
    THEN [m EXCEPT !.freed[c] = IF @ < 2 THEN @ + 1 ELSE @, !.ub = TRUE]
    ELSE ReleaseAll([m EXCEPT !.heap[c] = FreedCell, !.freed[c] = @ + 1],
                    m.heap[c].kids)
ReleaseAll(m, cs) ==
    IF cs = <<>> THEN m ELSE ReleaseAll(Release(m, Head(cs)), Tail(cs))

RECURSIVE AllocSlots(_, _, _)
\* n fresh Null child slots for container c
AllocSlots(m, c, n) ==
    IF n = 0 \/ m.oom THEN m
    ELSE IF Full(m) THEN [m EXCEPT !.oom = TRUE]
    ELSE AllocSlots([m EXCEPT !.heap[NextFree(m)] = NullCell,
                              !.freed[NextFree(m)] = 0,
                              !.heap[c].kids = Append(@, NextFree(m))], c, n - 1)

\* re-tagging: the prior contents are discarded (children deep-freed), the
\* new tag and payload are stored and n Null child slots are allocated
Format(m, c, tag, val, n) ==
    IF m.ub \/ m.oom THEN m
    ELSE IF ~Live(m, c) THEN [m EXCEPT !.ub = TRUE]
    ELSE LET r == ReleaseAll(m, m.heap[c].kids)
             f == [r EXCEPT !.heap[c] = [st |-> "live", tag |-> tag, val |-> val,
                                         keys |-> [i \in 1..(IF tag = "Dictionary" THEN n ELSE 0) |-> <<>>],
                                         kids |-> <<>>]]
         IN  IF r.ub THEN r ELSE AllocSlots(f, c, n)

RECURSIVE DeepCopy(_, _, _), CopyKids(_, _, _, _)
\* the contents of src are copied into dst, children into fresh slots of dst
DeepCopy(m, src, dst) ==
    IF m.ub \/ m.oom THEN m
    ELSE IF ~Live(m, src) \/ ~Live(m, dst) THEN [m EXCEPT !.ub = TRUE]
    ELSE LET s == m.heap[src]
             f == Format(m, dst, s.tag, s.val, Len(s.kids))
             g == IF f.ub \/ f.oom THEN f ELSE [f EXCEPT !.heap[dst].keys = s.keys]
         IN  CopyKids(g, src, dst, 1)
CopyKids(m, src, dst, i) ==
    IF m.ub \/ m.oom THEN m
    ELSE IF i > Len(m.heap[src].kids) \/ i > Len(m.heap[dst].kids) THEN m
    ELSE CopyKids(DeepCopy(m, m.heap[src].kids[i], m.heap[dst].kids[i]),
                  src, dst, i + 1)

\* ---- the engine calls the binding makes
BoltValue_create(m) ==
    IF m.ub \/ m.oom THEN m
    ELSE IF Full(m) THEN [m EXCEPT !.oom = TRUE]
    ELSE [Tick(m) EXCEPT !.heap[NextFree(m)] = NullCell, !.freed[NextFree(m)] = 0,
                         !.ret = NextFree(m)]

BoltValue_destroy(m, c) == Release(Tick(m), c)

BoltValue_format_as(m, c, tag, val, n) == Format(Tick(m), c, tag, val, n)

BoltValue_copy(m, src, dst) == DeepCopy(Tick(m), src, dst)

\* BoltList_value / BoltDictionary_value / BoltStructure_value: slot i of c
\* (i counts from 0 in the code, from 1 here)
Bolt_value(m, c, i) ==
    IF m.ub \/ m.oom THEN m
    ELSE IF ~Live(m, c) \/ i > Len(m.heap[c].kids) THEN [m EXCEPT !.ub = TRUE]
    ELSE [Tick(m) EXCEPT !.ret = m.heap[c].kids[i]]

BoltDictionary_set_key(m, c, i, key) ==
    IF m.ub \/ m.oom THEN m
    ELSE IF ~Live(m, c) \/ i > Len(m.heap[c].keys) THEN [m EXCEPT !.ub = TRUE]
    ELSE [Tick(m) EXCEPT !.heap[c].keys[i] = key]

RECURSIVE Content(_, _)
\* what a cell holds, children included, storage addresses left out
Content(h, c) ==
    [tag |-> h[c].tag, val |-> h[c].val, keys |-> h[c].keys,
     kids |-> [i \in 1..Len(h[c].kids) |-> Content(h, h[c].kids[i])]]

(***************************************************************************)
(* Strings at the boundary                                                 *)
(***************************************************************************)
HasNul(s) == \E i \in DOMAIN s : s[i] = 0

\* CString::new(..).unwrap(): Err, and a panic, on an interior NUL byte
CStringOk(s) == ~HasNul(s)

\* the buffer of a CString: the bytes and the terminating NUL
CStringBuf(s) == Append(s, 0)

OverRead == <<-1>>

\* CStr::from_ptr(p): the bytes up to the first NUL; none inside the stored
\* length means the scan runs past the storage
FromCStr(b) ==
    IF ~HasNul(b) THEN OverRead
    ELSE LET n == CHOOSE i \in DOMAIN b : b[i] = 0 /\ \A j \in 1..(i - 1) : b[j] # 0
         IN  SubSeq(b, 1, n - 1)

\* the length handed to the engine without the terminator
StringLenNoNul(s) == Len(s)

\* s.to_bytes_with_nul().len(): the length handed to the engine with a
\* String payload or a Dictionary key
StringLen(s) == Len(CStringBuf(s))

\* the bytes the engine stores: `length` bytes from the pointer
Stored(s) == SubSeq(CStringBuf(s), 1, StringLen(s))

(***************************************************************************)
(* Value: constructors and re-tagging (src/src/value.rs)                   *)
(***************************************************************************)
from_idx(t) == IF t \in Tags THEN t ELSE "Unknown"

get_type(m, c) == from_idx(m.heap[c].tag)

Value_new(m) == BoltValue_create(m)

\* the panic of an unwrap on the way: m as it was at the panic, with the
\* engine calls made before it kept in early
Panic(m) == [m EXCEPT !.panic = TRUE, !.early = m.calls]

null(m, self) == BoltValue_format_as(m, self, "Null", <<>>, 0)

boolean(m, self, v) == BoltValue_format_as(m, self, "Boolean", <<IF v THEN 1 ELSE 0>>, 0)

into_integer(m, self, v) == BoltValue_format_as(m, self, "Integer", v, 0)

into_float(m, self, v) == BoltValue_format_as(m, self, "Float", v, 0)

\* a string with an interior NUL panics before the engine is called; the
\* unwinding drops self
into_string(m, self, s) ==
    IF ~CStringOk(s) THEN BoltValue_destroy(Panic(m), self)
    ELSE BoltValue_format_as(m, self, "String", Stored(s), 0)

into_bytes(m, self, v) == BoltValue_format_as(m, self, "Bytes", v, 0)

\* BoltValue_copy with source and destination exchanged
CopyItemSwapped(m, v, p) == BoltValue_copy(m, p, v)

\* unsafe { BoltValue_copy(v.ptr, p) }
CopyItem(m, v, p) == BoltValue_copy(m, v, p)

RECURSIVE CopyItems(_, _, _, _)
\* for (i, v) in items.into_iter().enumerate(): the slot i of self is fetched,
\* v is copied into it, and v is dropped at the end of the iteration
CopyItems(m, self, items, i) ==
    IF i > Len(items) \/ m.ub \/ m.oom THEN m
    ELSE LET p == Bolt_value(m, self, i)
             c == CopyItem(p, items[i], p.ret)
             d == IF c.ub \/ c.oom THEN c ELSE BoltValue_destroy(c, items[i])
         IN  CopyItems(d, self, items, i + 1)

into_list(m, self, items) ==
    CopyItems(BoltValue_format_as(m, self, "List", <<>>, Len(items)), self, items, 1)

into_structure(m, self, code, fields) ==
    CopyItems(BoltValue_format_as(m, self, "Structure", <<code>>, Len(fields)),
              self, fields, 1)

\* ---- into_dict
PairKeys(pairs) == {pairs[i][1] : i \in DOMAIN pairs}

\* the index of the pair that stays in the HashMap for key k: the last one
LastIndex(pairs, k) ==
    CHOOSE i \in DOMAIN pairs :
        pairs[i][1] = k /\ \A j \in DOMAIN pairs : pairs[j][1] = k => j <= i

\* the values an insert under an already present key returns, in order: the
\* collect drops each
RECURSIVE Displaced(_, _)
Displaced(pairs, i) ==
    IF i > Len(pairs) THEN <<>>
    ELSE IF i # LastIndex(pairs, pairs[i][1])
         THEN <<pairs[i][2]>> \o Displaced(pairs, i + 1)
         ELSE Displaced(pairs, i + 1)

RECURSIVE DestroyAll(_, _)
DestroyAll(m, cs) ==
    IF cs = <<>> THEN m ELSE DestroyAll(BoltValue_destroy(m, Head(cs)), Tail(cs))

RECURSIVE FillDict(_, _, _, _, _)
\* for (i, (k, v)) in dict.into_iter().enumerate(), in the order the HashMap
\* iterates; a key with an interior NUL panics here, and the unwinding drops
\* v, the entries not yet visited and self
FillDict(m, self, pairs, order, i) ==
    IF i > Len(order) \/ m.ub \/ m.oom THEN m
    ELSE LET k == order[i]
             v == pairs[LastIndex(pairs, k)][2]
         IN  IF ~CStringOk(k)
             THEN LET rest == [j \in 1..(Len(order) - i) |->
                                  pairs[LastIndex(pairs, order[i + j])][2]]
                  IN  BoltValue_destroy(DestroyAll(Panic(m), <<v>> \o rest), self)
             ELSE LET a == BoltDictionary_set_key(m, self, i, Stored(k))
                      p == Bolt_value(a, self, i)
                      c == CopyItem(p, v, p.ret)
                      d == IF c.ub \/ c.oom THEN c ELSE BoltValue_destroy(c, v)
                  IN  FillDict(d, self, pairs, order, i + 1)

\* order: the distinct keys in the order the HashMap iterates over them
into_dict(m, self, pairs, order) ==
    LET dropped == DestroyAll(m, Displaced(pairs, 1))
        f == BoltValue_format_as(dropped, self, "Dictionary", <<>>,
                                 Cardinality(PairKeys(pairs)))
    IN  FillDict(f, self, pairs, order, 1)

(***************************************************************************)
(* Value: typed accessors.  Each answers [outcome, reads, value, handles]: *)
(* "panic" when the assert_eq! on the tag fails, else "ok" with the number *)
(* of payload reads made of the engine, the value read and, for a          *)
(* container, the cells the returned Value handles point at.               *)
(***************************************************************************)
NoValue == <<-2>>

TagPanic == [outcome |-> "panic", reads |-> 0, value |-> NoValue, handles |-> <<>>]

Got(n, v, hs) == [outcome |-> "ok", reads |-> n, value |-> v, handles |-> hs]

\* as_integer without its assert_eq!
as_integer_unchecked(m, c) == Got(1, m.heap[c].val, <<>>)

as_boolean(m, c) ==
    IF get_type(m, c) # "Boolean" THEN TagPanic
    ELSE Got(1, m.heap[c].val[1] = 1, <<>>)

as_integer(m, c) ==
    IF get_type(m, c) # "Integer" THEN TagPanic
    ELSE Got(1, m.heap[c].val, <<>>)

as_float(m, c) ==
    IF get_type(m, c) # "Float" THEN TagPanic
    ELSE Got(1, m.heap[c].val, <<>>)

as_string(m, c) ==
    IF get_type(m, c) # "String" THEN TagPanic
    ELSE Got(1, FromCStr(m.heap[c].val), <<>>)

\* slice::from_raw_parts(BoltBytes_get_all(ptr), BoltValue_size(ptr))
as_bytes(m, c) ==
    IF get_type(m, c) # "Bytes" THEN TagPanic
    ELSE Got(2, SubSeq(m.heap[c].val, 1, Len(m.heap[c].val)), <<>>)

\* one Value::from_ptr per slot: each handle points at the slot itself
as_list(m, c) ==
    IF get_type(m, c) # "List" THEN TagPanic
    ELSE Got(1 + Len(m.heap[c].kids), Len(m.heap[c].kids), m.heap[c].kids)

as_structure(m, c) ==
    IF get_type(m, c) # "Structure" THEN TagPanic
    ELSE Got(2 + Len(m.heap[c].kids), m.heap[c].val[1], m.heap[c].kids)

\* the HashMap<String, Value> as_dict builds: the keys read back, each with
\* the slot of the last index holding it; value is the mapping as contents
DictKeysRead(m, c) == {FromCStr(m.heap[c].keys[i]) : i \in DOMAIN m.heap[c].keys}

\* every key read from the first slot
DictSlotFirst(m, c, k) == m.heap[c].kids[1]

DictSlot(m, c, k) ==
    LET i == CHOOSE i \in DOMAIN m.heap[c].keys :
                 /\ FromCStr(m.heap[c].keys[i]) = k
                 /\ \A j \in DOMAIN m.heap[c].keys :
                        FromCStr(m.heap[c].keys[j]) = k => j <= i
    IN  m.heap[c].kids[i]

as_dict(m, c) ==
    IF get_type(m, c) # "Dictionary" THEN TagPanic
    ELSE Got(1 + 2 * Len(m.heap[c].kids),
             [k \in DictKeysRead(m, c) |-> Content(m.heap, DictSlot(m, c, k))],
             m.heap[c].kids)

RECURSIVE DictDisplaced(_, _, _)
\* the handles an insert under a key already in the HashMap displaces, which
\* are dropped: the slots of every index but the last holding its key
DictDisplaced(m, c, i) ==
    IF i > Len(m.heap[c].keys) THEN <<>>
    ELSE IF \E j \in DOMAIN m.heap[c].keys :
                j > i /\ FromCStr(m.heap[c].keys[j]) = FromCStr(m.heap[c].keys[i])
         THEN <<m.heap[c].kids[i]>> \o DictDisplaced(m, c, i + 1)
         ELSE DictDisplaced(m, c, i + 1)

AccTag(acc) ==
    CASE acc = "as_boolean" -> "Boolean"
      [] acc = "as_integer" -> "Integer"
      [] acc = "as_float" -> "Float"
      [] acc = "as_string" -> "String"
      [] acc = "as_bytes" -> "Bytes"
      [] acc = "as_list" -> "List"
      [] acc = "as_dict" -> "Dictionary"
      [] acc = "as_structure" -> "Structure"

ScalarAccessors == {"as_boolean", "as_integer", "as_float", "as_string", "as_bytes"}

Accessor(acc, m, c) ==
    CASE acc = "as_boolean" -> as_boolean(m, c)
      [] acc = "as_integer" -> as_integer(m, c)
      [] acc = "as_float" -> as_float(m, c)
      [] acc = "as_string" -> as_string(m, c)
      [] acc = "as_bytes" -> as_bytes(m, c)
      [] acc = "as_list" -> as_list(m, c)
      [] acc = "as_dict" -> as_dict(m, c)
      [] acc = "as_structure" -> as_structure(m, c)

(***************************************************************************)
(* The Value handles a program holds, and one action per operation         *)
(***************************************************************************)
NoBuild == [c |-> 0, kind |-> "none", code |-> 0, keys |-> <<>>, contents |-> <<>>,
            fresh |-> TRUE, released |-> TRUE, exposed |-> FALSE]
NoMade == [cell |-> 0, tag |-> "none", x |-> NoValue, ok |-> FALSE]
NoLast == [acc |-> "none", cell |-> 0, live |-> TRUE, tag |-> "none",
           outcome |-> "none", reads |-> 0, value |-> NoValue, made |-> NoMade,
           build |-> NoBuild]
NoOp == [op |-> "none", rejected |-> FALSE, early |-> 0]

ValueInit ==
    /\ heap = [c \in Cells |-> NoCell]
    /\ freed = [c \in Cells |-> 0]
    /\ owned = [c \in Cells |-> 0]
    /\ ub = FALSE
    /\ last = NoLast
    /\ lastBuild = NoBuild
    /\ made = NoMade
    /\ lastOp = NoOp

Handles == {c \in Cells : owned[c] > 0}

RECURSIVE SumOwned(_)
SumOwned(S) == IF S = {} THEN 0 ELSE LET c == CHOOSE c \in S : TRUE
                                     IN  owned[c] + SumOwned(S \ {c})
HandleCount == SumOwned(Cells)

Count(seq, x) == Cardinality({i \in DOMAIN seq : seq[i] = x})

\* the receiver of a from_X / into_X: 0 is a fresh Value::new(), else a handle
Selfs == Handles \cup {0}

\* the handles of the run stay within its capacity
Room(self, items) ==
    HandleCount - Len(items) + (IF self = 0 THEN 1 ELSE 0) <= lim.handles

Start(self) == IF self = 0 THEN Value_new(Mach) ELSE [Mach EXCEPT !.ret = self]

\* the handles left after an operation: the items moved into it are gone, a
\* fresh receiver is returned unless the operation panicked, a receiver passed
\* by value is dropped by a panic
OwnedAfter(self, c, items, panicked) ==
    [x \in Cells |->
        owned[x] - Count(items, x)
        + (IF x = c /\ self = 0 /\ ~panicked THEN 1 ELSE 0)
        - (IF x = c /\ self # 0 /\ panicked THEN 1 ELSE 0)]

\* sequences of handles a caller can move into one call
Movable(self, items) ==
    \A x \in Cells : Count(items, x) + (IF x = self THEN 1 ELSE 0) <= owned[x]

ItemSeqs == UNION {[1..k -> Handles] : k \in 0..HandleCount}

\* released storage that no handle and no live container points at any more
\* goes back to the allocator
Reclaimed(m, ownedNew) ==
    {c \in Cells : /\ m.heap[c].st = "freed"
                   /\ ownedNew[c] = 0
                   /\ \A d \in Cells : \A i \in DOMAIN m.heap[d].kids :
                          m.heap[d].kids[i] # c}

\* the cells in use after an operation
InUse(m, ownedNew) ==
    {c \in Cells : m.heap[c].st # "unalloc" /\ c \notin Reclaimed(m, ownedNew)}

\* An address carries no meaning: after each operation the cells in use are
\* renamed 1, 2, ... in the order of their addresses.
Rank(K, c) == Cardinality({d \in K : d <= c})
Unrank(K, r) == CHOOSE c \in K : Rank(K, c) = r
Renamed(K, c) == IF c \in K THEN Rank(K, c) ELSE 0

\* Once the program has executed undefined behaviour nothing more is said
\* about it: the model keeps which storage was released twice and stops.
Commit(m, ownedNew) ==
    LET K == InUse(m, ownedNew) IN
    /\ ~m.oom
    /\ heap' = [r \in Cells |->
                  IF m.ub \/ r > Cardinality(K) THEN NoCell
                  ELSE [m.heap[Unrank(K, r)] EXCEPT
                           !.kids = [i \in DOMAIN @ |-> Rank(K, @[i])]]]
    /\ freed' = [r \in Cells |->
                  IF m.ub THEN (IF m.freed[r] >= 2 THEN 2 ELSE 0)
                  ELSE IF r > Cardinality(K) THEN 0
                  ELSE m.freed[Unrank(K, r)]]
    /\ ub' = m.ub
    /\ owned' = [r \in Cells |->
                  IF m.ub \/ r > Cardinality(K) THEN 0 ELSE ownedNew[Unrank(K, r)]]
    /\ lim' = lim
    /\ UNCHANGED notHeap

\* a cell named before the operation, as it is named after it
After(m, ownedNew, c) == Renamed(InUse(m, ownedNew), c)

KeepBuild(m, ownedNew, retagged) ==
    IF lastBuild.c # 0 /\ lastBuild.c # retagged /\ Live(m, lastBuild.c) /\ ~m.ub
    THEN [lastBuild EXCEPT !.c = After(m, ownedNew, lastBuild.c)]
    ELSE NoBuild

\* kept of an operation that rejected its input: the engine calls it had
\* made by then, and whether it left the engine as it found it
OpDone(name, m) ==
    IF m.panic /\ ~m.ub
    THEN [op |-> name, rejected |-> TRUE, early |-> m.early]
    ELSE NoOp

\* a scalar constructor or re-tagging: from_X(x) when self = 0, else on self
Scalar(self, name, tag, x, m0, m1) ==
    LET ownedNew == OwnedAfter(self, m0.ret, <<>>, m1.panic) IN
    /\ Commit(m1, ownedNew)
    /\ made' = IF m1.ub THEN NoMade
               ELSE [cell |-> After(m1, ownedNew, m0.ret), tag |-> tag, x |-> x,
                     ok |-> ~m1.panic]
    /\ lastBuild' = KeepBuild(m1, ownedNew, m0.ret)
    /\ lastOp' = OpDone(name, m1)
    /\ last' = NoLast

Null(self) ==
    /\ ~ub
    /\ Room(self, <<>>)
    /\ \E m0 \in {Start(self)} :
        /\ ~m0.oom
        /\ \E m1 \in {null(m0, m0.ret)} :
              Scalar(self, "null", "Null", NoValue, m0, m1)

Boolean(self, v) ==
    /\ ~ub
    /\ Room(self, <<>>)
    /\ \E m0 \in {Start(self)} :
        /\ ~m0.oom
        /\ \E m1 \in {boolean(m0, m0.ret, v)} :
              Scalar(self, "boolean", "Boolean", v, m0, m1)

IntoInteger(self, v) ==
    /\ ~ub
    /\ Room(self, <<>>)
    /\ \E m0 \in {Start(self)} :
        /\ ~m0.oom
        /\ \E m1 \in {into_integer(m0, m0.ret, v)} :
              Scalar(self, "into_integer", "Integer", v, m0, m1)

IntoFloat(self, v) ==
    /\ ~ub
    /\ Room(self, <<>>)
    /\ \E m0 \in {Start(self)} :
        /\ ~m0.oom
        /\ \E m1 \in {into_float(m0, m0.ret, v)} :
              Scalar(self, "into_float", "Float", v, m0, m1)

IntoString(self, s) ==
    /\ ~ub
    /\ Room(self, <<>>)
    /\ \E m0 \in {Start(self)} :
        /\ ~m0.oom
        /\ \E m1 \in {into_string(m0, m0.ret, s)} :
              Scalar(self, "into_string", "String", s, m0, m1)

IntoBytes(self, v) ==
    /\ ~ub
    /\ Room(self, <<>>)
    /\ \E m0 \in {Start(self)} :
        /\ ~m0.oom
        /\ \E m1 \in {into_bytes(m0, m0.ret, v)} :
              Scalar(self, "into_bytes", "Bytes", v, m0, m1)

Range(f) == {f[i] : i \in DOMAIN f}

\* a container constructor: the items are moved in.  Kept of it: what was
\* supplied (the keys and the contents of the items as they were) and whether
\* every slot is storage other than the items' own
Built(self, name, kind, code, items, keys, m0, m1) ==
    LET ownedNew == OwnedAfter(self, m0.ret, items, m1.panic) IN
    /\ Commit(m1, ownedNew)
    /\ lastBuild' = IF m1.ub \/ m1.panic THEN NoBuild
                    ELSE [c |-> After(m1, ownedNew, m0.ret), kind |-> kind,
                          code |-> code, keys |-> keys,
                          contents |-> [i \in DOMAIN items |-> Content(heap, items[i])],
                          fresh |-> Range(m1.heap[m0.ret].kids) \cap Range(items) = {},
                          released |-> \A i \in DOMAIN items : ~Live(m1, items[i]),
                          exposed |-> FALSE]
    /\ made' = NoMade
    /\ lastOp' = OpDone(name, m1)
    /\ last' = NoLast

IntoList(self, items) ==
    /\ ~ub
    /\ Movable(self, items)
    /\ Room(self, items)
    /\ \E m0 \in {Start(self)} :
        /\ ~m0.oom
        /\ \E m1 \in {into_list(m0, m0.ret, items)} :
              Built(self, "into_list", "List", 0, items, <<>>, m0, m1)

IntoStructure(self, code, fields) ==
    /\ ~ub
    /\ Movable(self, fields)
    /\ Room(self, fields)
    /\ \E m0 \in {Start(self)} :
        /\ ~m0.oom
        /\ \E m1 \in {into_structure(m0, m0.ret, code, fields)} :
              Built(self, "into_structure", "Structure", code, fields, <<>>, m0, m1)

KeyOrders(S) ==
    {f \in [1..Cardinality(S) -> S] : \A i, j \in DOMAIN f : i # j => f[i] # f[j]}

IntoDict(self, keys, items) ==
    /\ ~ub
    /\ Movable(self, items)
    /\ Room(self, items)
    /\ LET pairs == [i \in DOMAIN items |-> <<keys[i], items[i]>>] IN
       \E order \in KeyOrders(PairKeys(pairs)) :
         \E m0 \in {Start(self)} :
            /\ ~m0.oom
            /\ \E m1 \in {into_dict(m0, m0.ret, pairs, order)} :
                  Built(self, "into_dict", "Dictionary", 0, items, keys, m0, m1)

ContainerAccessors == {"as_list", "as_dict", "as_structure"}
Accessors == ScalarAccessors \cup ContainerAccessors

\* a typed accessor called on a handle
Access(acc, c) ==
    /\ ~ub
    /\ owned[c] > 0
    /\ lastOp' = NoOp
    /\ IF ~Live(Mach, c)
       THEN \* the storage was released: the tag is read from freed memory
            /\ \E out \in {"panic", "garbage"} :
                 last' = [NoLast EXCEPT !.acc = acc, !.cell = c, !.live = FALSE,
                                        !.outcome = out,
                                        !.reads = IF out = "garbage" THEN 1 ELSE 0]
            /\ Commit([Mach EXCEPT !.ub = TRUE], owned)
            /\ lastBuild' = NoBuild
            /\ made' = NoMade
       ELSE LET r == Accessor(acc, Mach, c)
                over == \/ acc = "as_string" /\ r.outcome = "ok" /\ r.value = OverRead
                        \/ acc = "as_dict" /\ r.outcome = "ok"
                                           /\ OverRead \in DictKeysRead(Mach, c)
                gone == IF acc = "as_dict" /\ r.outcome = "ok"
                        THEN DictDisplaced(Mach, c, 1) ELSE <<>>
                d == DestroyAll(Mach, gone)
                m == [d EXCEPT !.ub = (d.ub \/ over)]
                ownedNew == [x \in Cells |->
                                owned[x] + Count(r.handles, x) - Count(gone, x)]
            IN  /\ HandleCount + Len(r.handles) <= lim.handles
                /\ Commit(m, ownedNew)
                /\ last' = [acc |-> acc, cell |-> After(m, ownedNew, c), live |-> TRUE,
                            tag |-> heap[c].tag,
                            outcome |-> IF over THEN "garbage" ELSE r.outcome,
                            reads |-> r.reads, value |-> r.value,
                            made |-> IF made.cell = c THEN made ELSE NoMade,
                            build |-> IF lastBuild.c = c /\ ~lastBuild.exposed
                                      THEN lastBuild ELSE NoBuild]
                /\ lastBuild' = IF m.ub THEN NoBuild
                                ELSE IF lastBuild.c = c /\ r.handles # <<>>
                                THEN NoBuild
                                ELSE lastBuild
                /\ made' = IF m.ub THEN NoMade ELSE made

\* Drop for Value: BoltValue_destroy(self.ptr)
Drop(c) ==
    /\ ~ub
    /\ owned[c] > 0
    /\ LET m == BoltValue_destroy(Mach, c)
           ownedNew == [owned EXCEPT ![c] = @ - 1]
       IN
        /\ Commit(m, ownedNew)
        /\ lastBuild' = KeepBuild(m, ownedNew, 0)
        /\ made' = NoMade
        /\ last' = NoLast
        /\ lastOp' = NoOp

\* ---- inputs
\* i64 and f64 payloads are written as four 16-bit limbs, most significant first
I64(a, b, c, d) == <<a, b, c, d>>

HeapInts == {I64(0, 0, 0, 1)}
HeapKeys == {<<97>>}
HeapCodes == {5}

\* the storage model: values, containers of them, the handles read back
\* a container accessor applied to a value of its own kind, or to a handle whose
\* storage is gone
ReadContainer(acc, c) ==
    /\ Live(Mach, c) => heap[c].tag = AccTag(acc)
    /\ Access(acc, c)

HeapNext ==
    \/ \E v \in HeapInts : IntoInteger(0, v)
    \/ \E self \in Selfs, items \in ItemSeqs : IntoList(self, items)
    \/ \E self \in Selfs, items \in ItemSeqs, code \in HeapCodes :
          IntoStructure(self, code, items)
    \/ \E self \in Selfs, items \in ItemSeqs :
          \E keys \in [DOMAIN items -> HeapKeys] : IntoDict(self, keys, items)
    \/ \E acc \in ContainerAccessors, c \in Handles : ReadContainer(acc, c)
    \/ \E c \in Handles : Drop(c)

(***************************************************************************)
(* Address, Config, Trust and basic_auth                                   *)
(***************************************************************************)
\* what one run may hold of each kind of object
Cap(cells, handles, addrs, ts, cs, vs, auths) ==
    [cells |-> cells, handles |-> handles, addresses |-> addrs, trusts |-> ts,
     configs |-> cs, views |-> vs, auths |-> auths]

Trusts == 1..lim.trusts
Configs == 1..lim.configs
Views == 1..lim.views

NoTrust == [st |-> "none", destroyed |-> 0, holder |-> "none", skip |-> 0]
NoConfig == [st |-> "none", trust |-> 0, scheme |-> "unset", transport |-> "unset",
             agent |-> NoValue]
NoView == [st |-> "none", config |-> 0, trust |-> 0]
NoRealm == <<-3>>
NoSeen == [username |-> "none", password |-> "none", realm |-> "none"]
NoAuth == [pc |-> "idle", username |-> <<>>, password |-> <<>>, realm |-> NoRealm,
           bufs |-> [username |-> "none", password |-> "none", realm |-> "none"],
           realm_ptr |-> "unset", seen |-> NoSeen, result |-> "none"]

LibInit ==
    /\ addresses = 0
    /\ trusts = [t \in Trusts |-> NoTrust]
    /\ configs = [c \in Configs |-> NoConfig]
    /\ views = [v \in Views |-> NoView]
    /\ auth = NoAuth

\* an operation that panicked on its input after `early` engine calls
Reject(name, early) == [op |-> name, rejected |-> TRUE, early |-> early]

\* ---- Address
AddressNew(addr, port) ==
    /\ addresses < lim.addresses
    /\ IF ~CStringOk(addr) \/ ~CStringOk(port)
       THEN /\ addresses' = addresses
            /\ lastOp' = Reject("Address::new", 0)
       ELSE \* BoltAddress_create gives a record, or null and the panic!()
            /\ \E ptr \in {"null", "record"} :
                 addresses' = IF ptr = "null" THEN addresses ELSE addresses + 1
            /\ lastOp' = NoOp
    /\ UNCHANGED <<trusts, configs, views, auth>>
    /\ UNCHANGED notLib

DropAddress ==
    /\ addresses > 0
    /\ addresses' = addresses - 1
    /\ lastOp' = NoOp
    /\ UNCHANGED <<trusts, configs, views, auth>>
    /\ UNCHANGED notLib

\* ---- the enums of make_enum!
Schemes == {"Direct", "Routing", "Neo4j", "Unknown"}
Transports == {"Plaintext", "Encrypted", "Unknown"}
Unimplemented == "unimplemented!()"

as_idx(e) ==
    CASE e = "Direct" -> "BOLT_SCHEME_DIRECT"
      [] e = "Routing" -> "BOLT_SCHEME_ROUTING"
      [] e = "Neo4j" -> "BOLT_SCHEME_NEO4J"
      [] e = "Plaintext" -> "BOLT_TRANSPORT_PLAINTEXT"
      [] e = "Encrypted" -> "BOLT_TRANSPORT_ENCRYPTED"
      [] e = "Unknown" -> Unimplemented

\* ---- the engine's Trust and Config records
BoltTrust_destroy(ts, t) ==
    IF t = 0 THEN ts
    ELSE [ts EXCEPT ![t] = [@ EXCEPT !.st = "freed", !.holder = "none",
                                     !.destroyed = IF @ < 2 THEN @ + 1 ELSE 2]]

FreeTrusts(ts) == {t \in Trusts : ts[t].st = "none"}
NewTrust(ts) == CHOOSE t \in FreeTrusts(ts) : \A u \in FreeTrusts(ts) : t <= u

\* BoltConfig_set_trust keeps a clone of the record it is given and lets go
\* of the clone it kept before
BoltConfig_set_trust(ts, old, t) ==
    LET released == BoltTrust_destroy(ts, old)
        n == NewTrust(released)
    IN  [released EXCEPT ![n] = [st |-> "live", destroyed |-> 0, holder |-> "config",
                                 skip |-> ts[t].skip]]

\* BoltConfig_destroy releases the record and the Trust clone it keeps
BoltConfig_destroy(ts, c) == BoltTrust_destroy(ts, configs[c].trust)

\* the drop of a view that also releases the Trust it points at
NTTWrapperDropDestroys(ts, v) == BoltTrust_destroy(ts, views[v].trust)

\* Drop for NTTWrapper: Box::from_raw on the indirection box, the Trust behind
\* it is left alone
NTTWrapperDrop(ts, v) == ts

\* ---- Trust and TrustBuilder
TrustBuild ==
    /\ FreeTrusts(trusts) # {}
    /\ trusts' = [trusts EXCEPT ![NewTrust(trusts)] =
                     [st |-> "live", destroyed |-> 0, holder |-> "builder", skip |-> 0]]
    /\ lastOp' = NoOp
    /\ UNCHANGED <<addresses, configs, views, auth>>
    /\ UNCHANGED notLib

TrustVerification(t, verify) ==
    /\ trusts[t].holder = "builder"
    /\ trusts' = [trusts EXCEPT ![t].skip = IF verify THEN 1 ELSE 0]
    /\ lastOp' = NoOp
    /\ UNCHANGED <<addresses, configs, views, auth>>
    /\ UNCHANGED notLib

TrustFinish(t) ==
    /\ trusts[t].holder = "builder"
    /\ trusts' = [trusts EXCEPT ![t].holder = "trust"]
    /\ lastOp' = NoOp
    /\ UNCHANGED <<addresses, configs, views, auth>>
    /\ UNCHANGED notLib

\* Drop for Trust, reached also by dropping a TrustBuilder
DropTrust(t) ==
    /\ trusts[t].holder \in {"builder", "trust"}
    /\ trusts' = BoltTrust_destroy(trusts, t)
    /\ lastOp' = NoOp
    /\ UNCHANGED <<addresses, configs, views, auth>>
    /\ UNCHANGED notLib

\* ---- Config and ConfigBuilder
ConfigBuild(c) ==
    /\ configs[c].st = "none"
    /\ configs' = [configs EXCEPT ![c] = [NoConfig EXCEPT !.st = "builder"]]
    /\ lastOp' = NoOp
    /\ UNCHANGED <<addresses, trusts, views, auth>>
    /\ UNCHANGED notLib

\* Drop for Config: BoltConfig_destroy on the record
ConfigDropped(c) ==
    /\ configs' = [configs EXCEPT ![c] = [@ EXCEPT !.st = "dropped", !.trust = 0]]
    /\ trusts' = BoltConfig_destroy(trusts, c)

WithScheme(c, scheme) ==
    /\ configs[c].st = "builder"
    /\ IF as_idx(scheme) = Unimplemented
       THEN ConfigDropped(c) /\ lastOp' = Reject("with_scheme", 0)
       ELSE /\ configs' = [configs EXCEPT ![c].scheme = as_idx(scheme)]
            /\ trusts' = trusts
            /\ lastOp' = NoOp
    /\ UNCHANGED <<addresses, views, auth>>
    /\ UNCHANGED notLib

WithTransport(c, transport) ==
    /\ configs[c].st = "builder"
    /\ IF as_idx(transport) = Unimplemented
       THEN ConfigDropped(c) /\ lastOp' = Reject("with_transport", 0)
       ELSE /\ configs' = [configs EXCEPT ![c].transport = as_idx(transport)]
            /\ trusts' = trusts
            /\ lastOp' = NoOp
    /\ UNCHANGED <<addresses, views, auth>>
    /\ UNCHANGED notLib

WithUserAgent(c, user_agent) ==
    /\ configs[c].st = "builder"
    /\ IF ~CStringOk(user_agent)
       THEN ConfigDropped(c) /\ lastOp' = Reject("with_user_agent", 0)
       ELSE /\ configs' = [configs EXCEPT ![c].agent = CStringBuf(user_agent)]
            /\ trusts' = trusts
            /\ lastOp' = NoOp
    /\ UNCHANGED <<addresses, views, auth>>
    /\ UNCHANGED notLib

\* the engine keeps a clone; the Trust moved in is dropped when with_trust returns
WithTrust(c, t) ==
    /\ configs[c].st = "builder"
    /\ trusts[t].holder = "trust"
    /\ FreeTrusts(BoltTrust_destroy(trusts, configs[c].trust)) # {}
    /\ LET kept == BoltConfig_set_trust(trusts, configs[c].trust, t)
           clone == NewTrust(BoltTrust_destroy(trusts, configs[c].trust))
       IN  /\ trusts' = BoltTrust_destroy(kept, t)
           /\ configs' = [configs EXCEPT ![c].trust = clone]
    /\ lastOp' = NoOp
    /\ UNCHANGED <<addresses, views, auth>>
    /\ UNCHANGED notLib

ConfigFinish(c) ==
    /\ configs[c].st = "builder"
    /\ configs' = [configs EXCEPT ![c].st = "config"]
    /\ lastOp' = NoOp
    /\ UNCHANGED <<addresses, trusts, views, auth>>
    /\ UNCHANGED notLib

\* Some(view) over the Trust the engine keeps for the Config, None without one
GetTrust(c, v) ==
    /\ configs[c].st = "config"
    /\ views[v].st = "none"
    /\ configs[c].trust # 0
    /\ views' = [views EXCEPT ![v] = [st |-> "live", config |-> c,
                                      trust |-> configs[c].trust]]
    /\ lastOp' = NoOp
    /\ UNCHANGED <<addresses, trusts, configs, auth>>
    /\ UNCHANGED notLib

DropView(v) ==
    /\ views[v].st = "live"
    /\ views' = [views EXCEPT ![v].st = "freed"]
    /\ trusts' = NTTWrapperDrop(trusts, v)
    /\ lastOp' = NoOp
    /\ UNCHANGED <<addresses, configs, auth>>
    /\ UNCHANGED notLib

\* Drop for Config, reached also by dropping a ConfigBuilder; a view borrows
\* its Config, which is dropped only after its views
DropConfig(c) ==
    /\ configs[c].st \in {"builder", "config"}
    /\ \A v \in Views : ~(views[v].st = "live" /\ views[v].config = c)
    /\ ConfigDropped(c)
    /\ lastOp' = NoOp
    /\ UNCHANGED <<addresses, views, auth>>
    /\ UNCHANGED notLib

\* ---- basic_auth, one step per statement
AuthFrame ==
    /\ UNCHANGED <<addresses, trusts, configs, views>>
    /\ UNCHANGED notLib

\* the panic of an unwrap: the CStrings made so far are dropped
AuthPanic ==
    /\ auth' = [NoAuth EXCEPT !.username = auth.username, !.password = auth.password,
                              !.realm = auth.realm]
    /\ lastOp' = Reject("basic_auth", 0)

AuthCall(username, password, realm) ==
    /\ lim.auths > 0
    /\ auth.pc = "idle"
    /\ auth' = [NoAuth EXCEPT !.pc = "username", !.username = username,
                              !.password = password, !.realm = realm]
    /\ lastOp' = NoOp
    /\ AuthFrame

AuthUsername ==
    /\ auth.pc = "username"
    /\ IF ~CStringOk(auth.username) THEN AuthPanic
       ELSE /\ auth' = [auth EXCEPT !.pc = "password", !.bufs.username = "live"]
            /\ lastOp' = NoOp
    /\ AuthFrame

AuthPassword ==
    /\ auth.pc = "password"
    /\ IF ~CStringOk(auth.password) THEN AuthPanic
       ELSE /\ auth' = [auth EXCEPT !.pc = "realm", !.bufs.password = "live"]
            /\ lastOp' = NoOp
    /\ AuthFrame

AuthRealm ==
    /\ auth.pc = "realm"
    /\ IF auth.realm # NoRealm /\ ~CStringOk(auth.realm) THEN AuthPanic
       ELSE /\ auth' = [auth EXCEPT !.pc = "realm_ptr",
                           !.bufs.realm = IF auth.realm = NoRealm THEN "none" ELSE "live"]
            /\ lastOp' = NoOp
    /\ AuthFrame

\* the pointer kept after `if let Some(s) = realm { s.as_ptr() }`: the CString
\* bound to s is dropped where the block ends
RealmPtr(a) ==
    IF a.realm = NoRealm
    THEN [a EXCEPT !.realm_ptr = "null"]
    ELSE [a EXCEPT !.realm_ptr = "buffer", !.bufs.realm = "freed"]

AuthRealmPtr ==
    /\ auth.pc = "realm_ptr"
    /\ auth' = [RealmPtr(auth) EXCEPT !.pc = "engine"]
    /\ lastOp' = NoOp
    /\ AuthFrame

\* BoltAuth_basic(username.as_ptr(), password.as_ptr(), realm_ptr): what each
\* pointer refers to when the engine reads it; a read through a pointer to a
\* freed buffer may give the old bytes, other bytes, or fault
AuthEngine ==
    /\ auth.pc = "engine"
    /\ \E result \in IF auth.realm_ptr = "buffer" /\ auth.bufs.realm # "live"
                      THEN {"auth", "garbage", "fault"} ELSE {"auth"} :
         auth' = [auth EXCEPT !.pc = "return", !.result = result,
                     !.seen = [username |-> auth.bufs.username,
                               password |-> auth.bufs.password,
                               realm |-> IF auth.realm_ptr = "null" THEN "null"
                                         ELSE auth.bufs.realm]]
    /\ lastOp' = NoOp
    /\ AuthFrame

\* the Auth is returned, username and password are dropped
AuthReturn ==
    /\ auth.pc = "return"
    /\ auth' = [auth EXCEPT !.pc = "idle",
                   !.bufs = [username |-> "freed", password |-> "freed",
                             realm |-> IF auth.bufs.realm = "none" THEN "none"
                                       ELSE "freed"]]
    /\ lastOp' = NoOp
    /\ AuthFrame

(***************************************************************************)
(* Specifications                                                          *)
(***************************************************************************)
InitGuard ==
    /\ lim = Cap(1, 0, 0, 0, 0, 0, 0)
    /\ GuardInit /\ ValueInit /\ LibInit

SpecGuard == InitGuard /\ [][GuardNext]_vars

\* every from_X constructor, every accessor and the drop of a Value, over the
\* empty containers and scalar payloads: the boundary integers 0, -1, i64::MIN and i64::MAX, four
\* doubles by their bits (0.0, -0.0, 1.5 and a NaN), strings and byte
\* sequences with the empty one, and a string with an interior NUL
RoundInts == {I64(0, 0, 0, 0), I64(65535, 65535, 65535, 65535),
              I64(32768, 0, 0, 0), I64(32767, 65535, 65535, 65535)}
RoundFloats == {I64(0, 0, 0, 0), I64(32768, 0, 0, 0), I64(16376, 0, 0, 0),
                I64(32760, 0, 0, 0)}
RoundStrings == {<<>>, <<97>>, <<97, 0, 98>>}
RoundBytes == {<<>>, <<0>>, <<255, 0>>}

RoundNext ==
    \/ Null(0)
    \/ \E v \in BOOLEAN : Boolean(0, v)
    \/ \E v \in RoundInts : IntoInteger(0, v)
    \/ \E v \in RoundFloats : IntoFloat(0, v)
    \/ \E s \in RoundStrings : IntoString(0, s)
    \/ \E v \in RoundBytes : IntoBytes(0, v)
    \/ IntoList(0, <<>>)
    \/ \E code \in HeapCodes : IntoStructure(0, code, <<>>)
    \/ IntoDict(0, <<>>, <<>>)
    \/ \E acc \in Accessors, c \in Handles : Access(acc, c)
    \/ \E c \in Handles : Drop(c)

InitRound ==
    /\ lim = Cap(RoundCells, RoundHandles, 0, 0, 0, 0, 0)
    /\ GuardInit /\ ValueInit /\ LibInit

SpecRound == InitRound /\ [][RoundNext]_vars

\* dictionaries of up to two integers under the keys "a" and "b"
DictInts == {I64(0, 0, 0, 1), I64(0, 0, 0, 2)}
DictKeys == {<<97>>, <<98>>}

FromInteger(v) == IntoInteger(0, v)

\* a value made by from_integer and held by the caller alone
Plain(c) ==
    /\ Live(Mach, c)
    /\ heap[c].tag = "Integer"
    /\ \A d \in Cells : c \notin Range(heap[d].kids)

\* the ways to move some of those values, each once, into one call
PlainSeqs ==
    LET P == {c \in Handles : Plain(c)} IN
    UNION {{f \in [1..k -> P] : \A i, j \in 1..k : f[i] = f[j] => i = j} :
              k \in 0..Cardinality(P)}

\* from_dict over pairs of a key and an integer value
FromDict(keys, items) ==
    /\ \A i \in DOMAIN items : Plain(items[i])
    /\ IntoDict(0, keys, items)

AsDict(c) ==
    /\ Live(Mach, c) => heap[c].tag = "Dictionary"
    /\ Access("as_dict", c)

DictNext ==
    \/ \E v \in DictInts : FromInteger(v)
    \/ \E items \in PlainSeqs : \E keys \in [DOMAIN items -> DictKeys] :
          FromDict(keys, items)
    \/ \E c \in Handles : AsDict(c)
    \/ \E c \in Handles : Drop(c)

InitDict ==
    /\ lim = Cap(DictCells, DictHandles, 0, 0, 0, 0, 0)
    /\ GuardInit /\ ValueInit /\ LibInit

SpecDict == InitDict /\ [][DictNext]_vars

\* ---- Trust, Config and the views of get_trust
TrustNext ==
    \/ TrustBuild
    \/ \E t \in Trusts, verify \in BOOLEAN : TrustVerification(t, verify)
    \/ \E t \in Trusts : TrustFinish(t)
    \/ \E t \in Trusts : DropTrust(t)
    \/ \E c \in Configs : ConfigBuild(c)
    \/ \E c \in Configs, t \in Trusts : WithTrust(c, t)
    \/ \E c \in Configs : ConfigFinish(c)
    \/ \E c \in Configs, v \in Views : GetTrust(c, v)
    \/ \E v \in Views : DropView(v)
    \/ \E c \in Configs : DropConfig(c)

InitTrust ==
    /\ lim = Cap(0, 0, 0, MaxTrusts, MaxConfigs, MaxViews, 0)
    /\ GuardInit /\ ValueInit /\ LibInit

SpecTrust == InitTrust /\ [][TrustNext]_vars

\* ---- basic_auth
AuthStrings == {<<>>, <<117>>, <<117, 0>>}
AuthRealms == AuthStrings \cup {NoRealm}

AuthNext ==
    \/ \E username \in AuthStrings, password \in AuthStrings, realm \in AuthRealms :
          AuthCall(username, password, realm)
    \/ AuthUsername
    \/ AuthPassword
    \/ AuthRealm
    \/ AuthRealmPtr
    \/ AuthEngine
    \/ AuthReturn

InitAuth ==
    /\ lim = Cap(0, 0, 0, 0, 0, 0, MaxAuths)
    /\ GuardInit /\ ValueInit /\ LibInit

SpecAuth == InitAuth /\ [][AuthNext]_vars

\* ---- every operation that takes a caller's string or enum
BoundaryKeys == {<<97>>, <<98, 0>>}

BoundaryNext ==
    \/ \E v \in HeapInts : IntoInteger(0, v)
    \/ \E self \in Selfs, s \in RoundStrings : IntoString(self, s)
    \/ \E self \in Selfs, items \in ItemSeqs :
          \E keys \in [DOMAIN items -> BoundaryKeys] : IntoDict(self, keys, items)
    \/ \E c \in Handles : Drop(c)
    \/ \E addr \in RoundStrings, port \in RoundStrings : AddressNew(addr, port)
    \/ DropAddress
    \/ \E c \in Configs : ConfigBuild(c)
    \/ \E c \in Configs, scheme \in Schemes : WithScheme(c, scheme)
    \/ \E c \in Configs, transport \in Transports : WithTransport(c, transport)
    \/ \E c \in Configs, user_agent \in RoundStrings : WithUserAgent(c, user_agent)
    \/ \E c \in Configs : DropConfig(c)
    \/ AuthNext

\* a run works on Values, on an Address and a Config, or on basic_auth
InitBoundary ==
    /\ lim \in {Cap(RoundCells, RoundHandles, 0, 0, 0, 0, 0),
                 Cap(0, 0, MaxAddresses, 0, MaxConfigs, 0, 0),
                 Cap(0, 0, 0, 0, 0, 0, MaxAuths)}
    /\ GuardInit /\ ValueInit /\ LibInit

SpecBoundary == InitBoundary /\ [][BoundaryNext]_vars

InitHeap ==
    /\ lim = Cap(HeapCells, HeapHandles, 0, 0, 0, 0, 0)
    /\ GuardInit /\ ValueInit /\ LibInit

SpecHeap == InitHeap /\ [][HeapNext]_vars

\* C3: release is never invoked twice on the same engine storage.
C3_ReleasedAtMostOnce == \A c \in Cells : freed[c] <= 1

\* the slots of the last container built hold what its items held
BuiltSlots ==
    LET h == heap[lastBuild.c] IN
    IF lastBuild.kind = "Dictionary"
    THEN /\ {FromCStr(h.keys[i]) : i \in DOMAIN h.keys} = Range(lastBuild.keys)
         /\ Len(h.kids) = Cardinality(Range(lastBuild.keys))
         /\ \A i \in DOMAIN h.keys :
               LET k == FromCStr(h.keys[i])
                   j == CHOOSE j \in DOMAIN lastBuild.keys :
                          /\ lastBuild.keys[j] = k
                          /\ \A x \in DOMAIN lastBuild.keys :
                                 lastBuild.keys[x] = k => x <= j
               IN  Content(heap, h.kids[i]) = lastBuild.contents[j]
    ELSE /\ Len(h.kids) = Len(lastBuild.contents)
         /\ \A i \in DOMAIN h.kids : Content(heap, h.kids[i]) = lastBuild.contents[i]
         /\ lastBuild.kind = "Structure" => h.val = <<lastBuild.code>>

\* C4: a container built by into_list, into_structure or into_dict whose slots
\* were never handed out holds, for as long as it lives, copies of the items it
\* was built from: its slots are storage of their own, the original items are
\* released, and each slot still has the content its item had when it was moved in.
C4_ContainerHoldsCopies ==
    lastBuild.c # 0 =>
        /\ heap[lastBuild.c].st = "live"
        /\ heap[lastBuild.c].tag = lastBuild.kind
        /\ \A i \in DOMAIN heap[lastBuild.c].kids :
              /\ heap[heap[lastBuild.c].kids[i]].st = "live"
              /\ owned[heap[lastBuild.c].kids[i]] = 0
        /\ lastBuild.fresh
        /\ lastBuild.released
        /\ BuiltSlots

C4_Witness ==
    /\ lastBuild.c # 0
    /\ lastBuild.kind = "List"
    /\ Len(lastBuild.contents) = 1
    /\ lastBuild.contents[1].tag = "Integer"
    /\ lastBuild.released
    /\ \E c \in Cells : owned[c] > 0 /\ c # lastBuild.c

\* C5: a typed accessor applied to a value with another tag panics on its
\* assert before it reads any payload and yields no value; applied to a value
\* with its own tag it passes the tag check.
C5_MismatchFailsFast ==
    (last.acc # "none" /\ last.live) =>
        IF last.tag # AccTag(last.acc)
        THEN last.outcome = "panic" /\ last.reads = 0 /\ last.value = NoValue
        ELSE last.outcome # "panic"

C5_Witness ==
    /\ last.acc = "as_integer"
    /\ last.live
    /\ last.tag = "String"
    /\ last.outcome = "panic"

\* C6: a value made by a scalar constructor that accepted its input has the
\* constructor's tag, and the accessor of that tag gives the input back.
C6_ScalarRoundTrip ==
    /\ (made.cell # 0 /\ made.ok) =>
          Live(Mach, made.cell) /\ get_type(Mach, made.cell) = made.tag
    /\ (last.made.cell # 0 /\ last.made.ok /\ last.acc # "none"
          /\ AccTag(last.acc) = last.made.tag) =>
          last.outcome = "ok" /\ last.value = last.made.x

C6_Witness ==
    /\ last.made.cell # 0
    /\ last.made.ok
    /\ last.made.tag = "String"
    /\ last.made.x = <<>>
    /\ last.acc = "as_string"
    /\ last.outcome = "ok"
    /\ last.value = <<>>

\* C7: as_dict of a dictionary just built by from_dict returns a mapping whose
\* keys are exactly the distinct keys supplied, one engine slot per key, each
\* key mapped to the content of the value supplied for it (the last one when a
\* key was supplied twice), whatever the order the slots were filled in.
C7_DictRoundTrip ==
    (last.acc = "as_dict" /\ last.build.c # 0 /\ last.build.kind = "Dictionary") =>
        /\ last.outcome = "ok"
        /\ DOMAIN last.value = Range(last.build.keys)
        /\ last.reads = 1 + 2 * Cardinality(Range(last.build.keys))
        /\ \A k \in Range(last.build.keys) :
              \E j \in DOMAIN last.build.keys :
                 /\ last.build.keys[j] = k
                 /\ \A x \in DOMAIN last.build.keys : last.build.keys[x] = k => x <= j
                 /\ last.value[k] = last.build.contents[j]

C7_Witness ==
    /\ last.acc = "as_dict"
    /\ last.build.c # 0
    /\ last.build.keys = <<<<98>>, <<97>>>>
    /\ last.outcome = "ok"
    /\ last.value[<<97>>].val # last.value[<<98>>].val

\* C8: an operation that rejects its input (an interior NUL byte, an Unknown
\* enum value) has made no engine call before the rejection.
C8_RejectedBeforeEngine == lastOp.rejected => lastOp.early = 0

C10_PointersLiveAtCall ==
    auth.seen # NoSeen =>
        /\ auth.seen.username = "live"
        /\ auth.seen.password = "live"
        /\ auth.seen.realm \in {"null", "live"}
        /\ auth.seen.realm = "null" <=> auth.realm = NoRealm
====
